---- MODULE Spec2Model ----
(***************************************************************************)
(* A model of the simhash package (src/main.go, package simhash): the      *)
(* near-duplicate index SimhashIndex (Add / Delete / GetNearDups over the  *)
(* bucket table), the fingerprint primitives (NewSimhash, Distance, Equal) *)
(* and the fingerprint builder buildByFeatures.                            *)
(*                                                                         *)
(* Go strings are modelled as sequences of one-character strings, so that  *)
(* fmt.Sprintf("%x,%s"), strings.SplitN and big.Int.SetString are real     *)
(* conversions.  big.Int values are TLA+ integers; the bitwise operations  *)
(* follow big.Int's two's-complement semantics for negative values.        *)
(***************************************************************************)
EXTENDS Integers, Sequences, FiniteSets, TLC

VARIABLES
    idxK,      \* SimhashIndex.K
    idxF,      \* SimhashIndex.F
    Bucket,    \* SimhashIndex.Bucket: bucket key -> set of serialized entries
    present,   \* history: the (value, objectId) pairs added and not deleted since
    lastOp,    \* history: the last index operation, its argument and its result
    bSimhash,  \* the receiver *Simhash of buildByFeatures: Value, F, FBytes
    bFeatures, \* the feature mapping being built: feature -> weight
    bOut,      \* history: the last build, its iteration order and its outcome
    bFirst,    \* history: the outcome of the first build of bFeatures
    batchSize, \* the package variable batchSize
    largeWeightCutoff, \* the package variable largeWeightCutoff
    fpNew,     \* history: the last NewSimhash call, its arguments and its outcome
    fpPrev,    \* the fingerprint NewSimhash returned before that one, or Nil
    fpOp,      \* history: the last Distance or Equal call and its outcome
    numWorkers,   \* buildByFeaturesConcurrent: runtime.NumCPU()
    taskCh,       \* the buffer of the channel taskCh
    taskClosed,   \* close(taskCh) has been executed
    resultCh,     \* the buffer of the channel resultCh
    resultClosed, \* close(resultCh) has been executed
    spawned,      \* the number of worker goroutines started
    wpc,          \* worker -> where it is: "idle", "recv", "send", "done"
    wtask,        \* worker -> the task it received and is processing
    ppc,          \* where the calling goroutine is in buildByFeaturesConcurrent
    unsent,       \* the features of the map not yet ranged over
    cSent,        \* history: the features in the order they were sent
    cTotalWeight, \* the local totalWeight
    cSums,        \* the local sums: the results received so far
    cOut          \* the outcome of buildByFeaturesConcurrent once it ended

idxVars == <<idxK, idxF, Bucket, present, lastOp>>

buildVars == <<bSimhash, bFeatures, bOut, bFirst, batchSize, largeWeightCutoff>>

fpVars == <<fpNew, fpPrev, fpOp>>

chanVars == <<taskCh, taskClosed, resultCh, resultClosed>>

workerVars == <<spawned, wpc, wtask>>

mainVars == <<ppc, unsent, cSent, cTotalWeight, cSums, cOut>>

concVars == <<numWorkers, chanVars, workerVars, mainVars>>

vars == <<idxVars, buildVars, fpVars, concVars>>

(***************************************************************************)
(* Bounds of the model and the program's constants.                        *)
(***************************************************************************)
MaxK == 2

defaultK == 2

defaultF == 64

\* The value nil of a Go pointer.
Nil == [nil |-> TRUE]

\* The outcome of a call: a returned value, or a panic with its message.
Return(v) == [panic |-> FALSE, value |-> v]

Panic(msg) == [panic |-> TRUE, msg |-> msg]

(***************************************************************************)
(* math/big: two's-complement bitwise operations on integers.              *)
(***************************************************************************)
RECURSIVE Pow2(_)
Pow2(n) ==
    IF n <= 0 THEN 1
    ELSE IF n <= 8 THEN <<2, 4, 8, 16, 32, 64, 128, 256>>[n]
    ELSE 256 * Pow2(n - 8)

\* new(big.Int).Lsh(x, n)
Lsh(x, n) == x * Pow2(n)

\* new(big.Int).Rsh(x, n): an arithmetic shift (rounds towards minus infinity)
Rsh(x, n) == x \div Pow2(n)

\* new(big.Int).And(x, y), for y >= 0 (y is always a mask here)
RECURSIVE And(_, _)
And(x, y) ==
    IF y = 0 THEN 0
    ELSE (x % 2) * (y % 2) + 2 * And(x \div 2, y \div 2)

\* new(big.Int).Xor(x, y), for any two integers
RECURSIVE Xor(_, _)
Xor(x, y) ==
    IF x \in {0, -1} /\ y \in {0, -1}
    THEN (IF x = y THEN 0 ELSE -1)
    ELSE (((x % 2) + (y % 2)) % 2) + 2 * Xor(x \div 2, y \div 2)

(***************************************************************************)
(* fmt and strings: hexadecimal formatting and parsing, SplitN.            *)
(***************************************************************************)
HexDigits == <<"0", "1", "2", "3", "4", "5", "6", "7",
               "8", "9", "a", "b", "c", "d", "e", "f">>

RECURSIVE HexNat(_)
HexNat(n) ==
    IF n < 16 THEN <<HexDigits[n + 1]>>
    ELSE Append(HexNat(n \div 16), HexDigits[(n % 16) + 1])

\* fmt.Sprintf("%x", v) of a *big.Int or an int: sign, then digits without
\* leading zeros.
Hex(v) == IF v < 0 THEN <<"-">> \o HexNat(0 - v) ELSE HexNat(v)

HexDigitValue(c) == (CHOOSE d \in 1..16 : HexDigits[d] = c) - 1

RECURSIVE ParseHexNat(_)
ParseHexNat(str) ==
    IF Len(str) = 0 THEN 0
    ELSE 16 * ParseHexNat(SubSeq(str, 1, Len(str) - 1)) + HexDigitValue(str[Len(str)])

\* new(big.Int).SetString(str, 16) on a well-formed string
SetString16(str) ==
    IF Len(str) > 0 /\ str[1] = "-"
    THEN 0 - ParseHexNat(SubSeq(str, 2, Len(str)))
    ELSE ParseHexNat(str)

\* strings.SplitN(str, ",", 2): split at the first comma, if there is one
SplitN2(str) ==
    LET commas == {i \in 1..Len(str) : str[i] = ","}
    IN  IF commas = {} THEN <<str>>
        ELSE LET i == CHOOSE j \in commas : \A k \in commas : j <= k
             IN  <<SubSeq(str, 1, i - 1), SubSeq(str, i + 1, Len(str))>>

\* every sequence that lists the elements of a finite set once each
Orderings(S) ==
    { f \in [1..Cardinality(S) -> S] : \A x \in S : \E i \in DOMAIN f : f[i] = x }

(***************************************************************************)
(* Simhash.Distance                                                        *)
(***************************************************************************)
\* the loop "for xor.Sign() > 0 { count++; xor.And(xor, xor-1) }"
RECURSIVE CountBits(_)
CountBits(xor) == IF xor > 0 THEN 1 + CountBits(And(xor - 1, xor)) ELSE 0

\* Distance truncating to the narrower width where Distance panics
DistanceTruncating(s, other) ==
    LET f == IF s.F < other.F THEN s.F ELSE other.F
    IN  Return(CountBits(And(Xor(s.Value, other.Value), Lsh(1, f) - 1)))

\* Distance without the mask: every bit of the xor is counted
DistanceNoMask(s, other) ==
    IF s.F # other.F THEN Panic("simhashes must have same dimensions")
    ELSE Return(CountBits(Xor(s.Value, other.Value)))

\* Simhash.Distance: the count it returns, or its panic
Distance(s, other) ==
    IF s.F # other.F THEN Panic("simhashes must have same dimensions")
    ELSE LET xor  == Xor(s.Value, other.Value)
             mask == Lsh(1, s.F) - 1
         IN  Return(CountBits(And(xor, mask)))

(***************************************************************************)
(* SimhashIndex                                                            *)
(***************************************************************************)
\* The receiver *SimhashIndex as a record.
Index == [K |-> idxK, F |-> idxF, Bucket |-> Bucket]

Offsets(s) ==
    LET chunk == s.F \div (s.K + 1)
    IN  [i \in 1..(s.K + 1) |-> chunk * (i - 1)]

\* GetKeys without the mask: key i holds every bit from offset i upwards
GetKeysNoMask(s, sim) ==
    LET offsets == Offsets(s)
    IN  [i \in 1..Len(offsets) |->
            Hex(Rsh(sim.Value, offsets[i])) \o <<":">> \o Hex(i - 1)]

\* GetKeys without the partition index in the key
GetKeysNoIndex(s, sim) ==
    LET offsets == Offsets(s)
    IN  [i \in 1..Len(offsets) |->
            LET offset  == offsets[i]
                maskLen == IF i = Len(offsets) THEN s.F - offset
                           ELSE offsets[i + 1] - offset
            IN  Hex(And(Rsh(sim.Value, offset), Lsh(1, maskLen) - 1))]

GetKeys(s, sim) ==
    LET offsets == Offsets(s)
    IN  [i \in 1..Len(offsets) |->
            LET offset  == offsets[i]
                maskLen == IF i = Len(offsets) THEN s.F - offset
                           ELSE offsets[i + 1] - offset
                mask    == Lsh(1, maskLen) - 1
                shifted == Rsh(sim.Value, offset)
                c       == And(shifted, mask)
            IN  Hex(c) \o <<":">> \o Hex(i - 1)]

\* fmt.Sprintf("%x,%s", obj.S.Value, obj.ObjectId)
Serialize(obj) == Hex(obj.S.Value) \o <<",">> \o obj.ObjectId

\* AddKeys as a toggle: an entry that is already in a bucket is taken out
RECURSIVE AddKeysToggle(_, _, _, _)
AddKeysToggle(bucket, keys, val, i) ==
    IF i > Len(keys) THEN bucket
    ELSE LET key == keys[i]
             b1  == IF key \in DOMAIN bucket
                    THEN [bucket EXCEPT ![key] =
                             IF val \in @ THEN @ \ {val} ELSE @ \cup {val}]
                    ELSE [k \in DOMAIN bucket \cup {key} |->
                             IF k = key THEN {val} ELSE bucket[k]]
         IN  AddKeysToggle(b1, keys, val, i + 1)

\* AddKeys with a new entry taking the place of the bucket's entries
RECURSIVE AddKeysOverwrite(_, _, _, _)
AddKeysOverwrite(bucket, keys, val, i) ==
    IF i > Len(keys) THEN bucket
    ELSE LET key == keys[i]
             b1  == [k \in DOMAIN bucket \cup {key} |->
                        IF k = key THEN {val} ELSE bucket[k]]
         IN  AddKeysOverwrite(b1, keys, val, i + 1)

\* the loop of Add over the keys, from the i-th key on
RECURSIVE AddKeys(_, _, _, _)
AddKeys(bucket, keys, val, i) ==
    IF i > Len(keys) THEN bucket
    ELSE LET key == keys[i]
             b1  == IF key \in DOMAIN bucket
                    THEN [bucket EXCEPT ![key] = @ \cup {val}]
                    ELSE [k \in DOMAIN bucket \cup {key} |->
                             IF k = key THEN {val} ELSE bucket[k]]
         IN  AddKeys(b1, keys, val, i + 1)

\* Add without the width check
AddNoWidthCheck(s, obj) ==
    IF obj.S = Nil THEN s.Bucket
    ELSE AddKeys(s.Bucket, GetKeys(s, obj.S), Serialize(obj), 1)

\* SimhashIndex.Add: the bucket table after the call
Add(s, obj) ==
    IF obj.S = Nil \/ obj.S.F # s.F THEN s.Bucket
    ELSE AddKeys(s.Bucket, GetKeys(s, obj.S), Serialize(obj), 1)

\* DeleteKeys dropping a bucket that still holds one other entry
RECURSIVE DeleteKeysOffByOne(_, _, _, _)
DeleteKeysOffByOne(bucket, keys, val, i) ==
    IF i > Len(keys) THEN bucket
    ELSE LET key == keys[i]
             b1  == IF key \in DOMAIN bucket
                    THEN IF Cardinality(bucket[key] \ {val}) <= 1
                         THEN [k \in DOMAIN bucket \ {key} |-> bucket[k]]
                         ELSE [bucket EXCEPT ![key] = @ \ {val}]
                    ELSE bucket
         IN  DeleteKeysOffByOne(b1, keys, val, i + 1)

\* DeleteKeys leaving a bucket it has emptied in the table
RECURSIVE DeleteKeysKeepEmpty(_, _, _, _)
DeleteKeysKeepEmpty(bucket, keys, val, i) ==
    IF i > Len(keys) THEN bucket
    ELSE LET key == keys[i]
             b1  == IF key \in DOMAIN bucket
                    THEN [bucket EXCEPT ![key] = @ \ {val}]
                    ELSE bucket
         IN  DeleteKeysKeepEmpty(b1, keys, val, i + 1)

\* the loop of Delete over the keys, from the i-th key on
RECURSIVE DeleteKeys(_, _, _, _)
DeleteKeys(bucket, keys, val, i) ==
    IF i > Len(keys) THEN bucket
    ELSE LET key == keys[i]
             b1  == IF key \in DOMAIN bucket
                    THEN IF bucket[key] \ {val} = {}
                         THEN [k \in DOMAIN bucket \ {key} |-> bucket[k]]
                         ELSE [bucket EXCEPT ![key] = @ \ {val}]
                    ELSE bucket
         IN  DeleteKeys(b1, keys, val, i + 1)

\* SimhashIndex.Delete: the bucket table after the call
Delete(s, obj) ==
    IF obj.S = Nil \/ obj.S.F # s.F THEN s.Bucket
    ELSE DeleteKeys(s.Bucket, GetKeys(s, obj.S), Serialize(obj), 1)

\* the candidates of GetNearDups: the entries of the buckets of the query's keys
Candidates(s, simhash) ==
    LET keys == GetKeys(s, simhash)
    IN  UNION { IF keys[i] \in DOMAIN s.Bucket THEN s.Bucket[keys[i]] ELSE {} :
                i \in 1..Len(keys) }

\* NearDupIds without the distance check: every candidate is returned
NearDupIdsNoFilter(s, simhash) ==
    { SplitN2(val)[2] : val \in { v \in Candidates(s, simhash) : Len(SplitN2(v)) = 2 } }

\* the map "result" of GetNearDups: the objectIds that pass the distance check
NearDupIds(s, simhash) ==
    { SplitN2(val)[2] :
        val \in { v \in Candidates(s, simhash) :
                    /\ Len(SplitN2(v)) = 2
                    /\ LET dup == [Value |-> SetString16(SplitN2(v)[1]), F |-> s.F]
                       IN  Distance(simhash, dup).value <= s.K } }

\* the elements of a finite set, listed in some order
RECURSIVE SeqOf(_)
SeqOf(S) ==
    IF S = {} THEN <<>>
    ELSE LET x == CHOOSE y \in S : TRUE IN <<x>> \o SeqOf(S \ {x})

\* GetNearDups appending an objectId for every bucket a near duplicate is
\* found in, without the map "result" in between
GetNearDupsNoDedup(s, simhash) ==
    IF simhash.F # s.F THEN {<<>>}
    ELSE LET keys == GetKeys(s, simhash)
             near(val) ==
                 /\ Len(SplitN2(val)) = 2
                 /\ Distance(simhash, [Value |-> SetString16(SplitN2(val)[1]),
                                       F |-> s.F]).value <= s.K
             hits == { <<i, val>> \in (1..Len(keys)) \X Candidates(s, simhash) :
                          /\ keys[i] \in DOMAIN s.Bucket
                          /\ val \in s.Bucket[keys[i]]
                          /\ near(val) }
             list == SeqOf(hits)
         IN  { [j \in DOMAIN list |-> SplitN2(list[j][2])[2]] }

\* SimhashIndex.GetNearDups: the slices the call may return (the order in
\* which Go ranges over the map "result" is not determined)
GetNearDups(s, simhash) ==
    IF simhash.F # s.F THEN {<<>>}
    ELSE Orderings(NearDupIds(s, simhash))

\* SimhashIndex.BucketSize: len(s.Bucket)
BucketSize(s) == Cardinality(DOMAIN s.Bucket)

(***************************************************************************)
(* Go integer arithmetic and byte strings.                                 *)
(***************************************************************************)
\* a / b and a % b of Go: the quotient is truncated towards zero
GoDiv(a, b) == IF a >= 0 THEN a \div b ELSE 0 - ((0 - a) \div b)

GoRem(a, b) == a - b * GoDiv(a, b)

\* the characters of the model's strings and their byte values
Chars == <<"a", "b", "c", "d", "e", "A", "B", " ", "!", "1", "_">>

CharCodes == <<97, 98, 99, 100, 101, 65, 66, 32, 33, 49, 95>>

Ord(c) == CharCodes[CHOOSE i \in DOMAIN Chars : Chars[i] = c]

Chr(n) == Chars[CHOOSE i \in DOMAIN CharCodes : CharCodes[i] = n]

\* []byte(str)
Bytes(str) == [i \in DOMAIN str |-> Ord(str[i])]

\* the injected digest (WithHashFunc): a deterministic two-byte digest
RECURSIVE DigestFold(_, _)
DigestFold(data, n) ==
    IF n = 0 THEN 1
    ELSE (DigestFold(data, n - 1) * 131 + data[n] * 211) % 65536

HashFunc(data) ==
    LET h == DigestFold(data, Len(data))
    IN  <<h \div 256, h % 256>>

(***************************************************************************)
(* The fingerprint builder.                                                *)
(***************************************************************************)
bitArrayFromBytes(hash) ==
    [i \in 1..(Len(hash) * 8) |->
        (hash[((i - 1) \div 8) + 1] \div Pow2(7 - ((i - 1) % 8))) % 2]

RECURSIVE SumColumn(_, _, _)
SumColumn(rows, i, n) ==
    IF n = 0 THEN 0 ELSE rows[n][i] + SumColumn(rows, i, n - 1)

\* summed[i] is the sum of bit i over the digests: the entries being 0 or 1,
\* the number of digests whose bit i is 1
sumHashes(digests, f) ==
    LET bitMatrix == [j \in DOMAIN digests |-> bitArrayFromBytes(digests[j])]
    IN  [i \in 1..f |-> Cardinality({j \in DOMAIN bitMatrix : bitMatrix[j][i] = 1})]

\* nil (the empty slice) for no rows
sumHashesBytes(sums) ==
    IF Len(sums) = 0 THEN <<>>
    ELSE [i \in 1..Len(sums[1]) |-> SumColumn(sums, i, Len(sums))]

RECURSIVE PackByte(_, _, _)
PackByte(bits, byteIndex, k) ==
    IF k = 0 THEN 0
    ELSE LET i == byteIndex * 8 + (k - 1)
         IN  (IF i < Len(bits) /\ bits[i + 1] # 0 THEN Pow2(7 - (i % 8)) ELSE 0)
             + PackByte(bits, byteIndex, k - 1)

packBits(bits) ==
    [b \in 1..((Len(bits) + 7) \div 8) |-> PackByte(bits, b - 1, 8)]

\* new(big.Int).SetBytes(buf): buf as a big-endian unsigned integer
RECURSIVE SetBytes(_)
SetBytes(buf) ==
    IF Len(buf) = 0 THEN 0
    ELSE 256 * SetBytes(SubSeq(buf, 1, Len(buf) - 1)) + buf[Len(buf)]

\* the variables of the loop of buildByFeatures
LoopStart == [sums |-> <<>>, batch |-> <<>>, count |-> 0, panic |-> FALSE]

Copies(h, n) == [i \in 1..n |-> h]

\* "if len(sums) >= batchSize { sums = [][]int{sumHashesBytes(sums)} }"
Collapse(sums) == IF Len(sums) >= batchSize THEN <<sumHashesBytes(sums)>> ELSE sums

\* SkipBatch appending the bit array as it is, not scaled by the weight
SkipBatchUnscaled(st, bitArray, weight) ==
    [st EXCEPT !.sums = Collapse(Append(@, bitArray)), !.count = @ + weight]

\* the branch of a weight above the cutoff: the bit array scaled by the weight
SkipBatch(st, bitArray, weight) ==
    [st EXCEPT !.sums = Collapse(Append(@, [i \in DOMAIN bitArray |-> bitArray[i] * weight])),
               !.count = @ + weight]

\* InBatch with a full batch replacing the partial sums instead of joining them
InBatchOverwrite(s, st, batch, weight) ==
    IF Len(batch) >= batchSize
    THEN [st EXCEPT !.sums = <<sumHashes(batch, s.F)>>,
                    !.batch = <<>>,
                    !.count = @ + weight]
    ELSE [st EXCEPT !.sums = Collapse(@), !.batch = batch, !.count = @ + weight]

\* the other branch, batch being the batch with the weight copies appended
InBatch(s, st, batch, weight) ==
    IF Len(batch) >= batchSize
    THEN [st EXCEPT !.sums = Collapse(Append(@, sumHashes(batch, s.F))),
                    !.batch = <<>>,
                    !.count = @ + weight]
    ELSE [st EXCEPT !.sums = Collapse(@), !.batch = batch, !.count = @ + weight]

\* the loop body once the digest is truncated to h
LoopBodyHashed(s, st, h, weight) ==
    IF weight > largeWeightCutoff
    THEN SkipBatch(st, bitArrayFromBytes(h), weight)
    ELSE InBatch(s, st, st.batch \o Copies(h, weight), weight)

\* "h := hashed[len(hashed)-s.FBytes:]" panics when the bound lies outside
\* the digest
LoopBodyDigest(s, st, hashed, weight) ==
    IF st.panic \/ Len(hashed) - s.FBytes < 0 \/ Len(hashed) - s.FBytes > Len(hashed)
    THEN [st EXCEPT !.panic = TRUE]
    ELSE LoopBodyHashed(s, st, SubSeq(hashed, Len(hashed) - s.FBytes + 1, Len(hashed)), weight)

\* one pass of the loop body, for a feature and its weight
LoopBody(s, st, feature, weight) ==
    LoopBodyDigest(s, st, HashFunc(Bytes(feature)), weight)

\* the loop over the features, Go ranging over the map in the given order
RECURSIVE Loop(_, _, _, _)
Loop(s, features, order, n) ==
    IF n = 0 THEN LoopStart
    ELSE LoopBody(s, Loop(s, features, order, n - 1), order[n], features[order[n]])

\* the partial sums once the remaining batch is folded in
FinalSums(s, st) ==
    IF Len(st.batch) > 0 THEN Append(st.sums, sumHashes(st.batch, s.F)) ELSE st.sums

\* Threshold with a tie setting the bit
ThresholdAtLeast(combinedSums, count) ==
    [i \in DOMAIN combinedSums |->
        IF combinedSums[i] > 0 /\ combinedSums[i] >= GoDiv(count + 1, 2) THEN 1 ELSE 0]

\* the majority vote: bit i is 1 when combinedSums[i] > count/2
Threshold(combinedSums, count) ==
    [i \in DOMAIN combinedSums |-> IF combinedSums[i] > GoDiv(count, 2) THEN 1 ELSE 0]

\* the code after the loop: fold the batch, combine, threshold and pack
Finish(s, st) ==
    IF st.panic THEN Panic("slice bounds out of range")
    ELSE Return([s EXCEPT !.Value =
            SetBytes(packBits(Threshold(sumHashesBytes(FinalSums(s, st)), st.count)))])

\* Simhash.buildByFeatures with the map ranged over in the given order
buildInOrder(s, features, order) == Finish(s, Loop(s, features, order, Len(order)))

\* Simhash.buildByFeatures: the outcomes over the orders Go may range in
buildByFeatures(s, features) ==
    { buildInOrder(s, features, order) : order \in Orderings(DOMAIN features) }

(***************************************************************************)
(* Tokenization and NewSimhash.                                            *)
(***************************************************************************)
\* strings.ToLower, on the model's characters
ToLower(str) ==
    [i \in DOMAIN str |-> IF Ord(str[i]) \in 65..90 THEN Chr(Ord(str[i]) + 32) ELSE str[i]]

\* a character of the class [\p{Han}\p{L}\p{N}_]
IsWordChar(c) == Ord(c) \in (97..122) \cup (65..90) \cup (48..57) \cup {95}

\* strings.Join(s.Reg.FindAllString(content, -1), ""): the characters of the
\* class, in order
RECURSIVE JoinMatches(_)
JoinMatches(str) ==
    IF Len(str) = 0 THEN <<>>
    ELSE LET rest == JoinMatches(SubSeq(str, 1, Len(str) - 1))
         IN  IF IsWordChar(str[Len(str)]) THEN Append(rest, str[Len(str)]) ELSE rest

slide(content, width) ==
    IF Len(content) < width THEN <<content>>
    ELSE [i \in 1..(Len(content) - width + 1) |-> SubSeq(content, i, i + width - 1)]

tokenize(content) == slide(JoinMatches(ToLower(content)), 4)

\* the map built by "featureMap[feature]++" over a list of features
CountFeatures(list) ==
    [f \in { list[i] : i \in DOMAIN list } |->
        Cardinality({i \in DOMAIN list : list[i] = f})]

buildByText(s, content) == buildByFeatures(s, CountFeatures(tokenize(content)))

\* the option WithF(f) applied to s
WithF(s, f) == [s EXCEPT !.F = f, !.FBytes = GoDiv(f, 8)]

RECURSIVE ApplyOptions(_, _, _)
ApplyOptions(s, options, n) ==
    IF n = 0 THEN s ELSE WithF(ApplyOptions(s, options, n - 1), options[n])

\* NewSimhash(value, options...): the outcomes it may have.  value is tagged
\* with its dynamic type; the options are the widths of WithF options.
NewSimhash(value, options) ==
    LET s0 == [Value |-> 0, F |-> defaultF, FBytes |-> GoDiv(defaultF, 8)]
        s1 == ApplyOptions(s0, options, Len(options))
        s  == IF GoRem(s1.F, 8) # 0 \/ s1.F = 0
              THEN [s1 EXCEPT !.F = defaultF, !.FBytes = GoDiv(defaultF, 8)]
              ELSE s1
    IN  CASE value.kind = "*Simhash" -> {Return([s EXCEPT !.Value = value.v.Value])}
          [] value.kind = "string" -> buildByText(s, value.v)
          [] value.kind = "map[string]int" -> buildByFeatures(s, value.v)
          [] value.kind = "[]string" ->
                buildByFeatures(s, [f \in { value.v[i] : i \in DOMAIN value.v } |-> 1])
          [] value.kind = "int64" -> {Return([s EXCEPT !.Value = value.v])}
          [] value.kind = "*big.Int" -> {Return([s EXCEPT !.Value = value.v])}
          [] OTHER -> {Return(Nil)}

\* Simhash.Equal
Equal(s, s2) == s.Value = s2.Value

(***************************************************************************)
(* The inputs of the index operations.                                     *)
(***************************************************************************)
\* the width the index is built with, and the widths of the entries and
\* queries handed to it
IndexWidths == {8}

OtherWidths == {16}

\* fingerprint values: near one another (7 and 259), sharing a partition at a
\* larger distance (0 and 7), negative (NewSimhash(int64(-1))) and wider
\* than 8 bits (259)
IndexValues == {0, 7, 259, -1}

QueryValues == IndexValues \cup {3}

\* the values of the fingerprints of another width than the index's
OtherValues == {7}

ObjectIds == { <<"1">>, <<"x", ",", "y">> }

Fingerprints ==
    [Value : IndexValues, F : IndexWidths] \cup [Value : OtherValues, F : OtherWidths]

Queries ==
    [Value : QueryValues, F : IndexWidths] \cup [Value : OtherValues, F : OtherWidths]

Objects ==
    [ObjectId : ObjectIds, S : Fingerprints] \cup [ObjectId : {<<"1">>}, S : {Nil}]

EmptyBucket == [k \in {} |-> {}]

NoOp == [op |-> "none"]

\* NewSimhashIndex(nil, SimhashIndexWithF(f), SimhashIndexWithK(k)), or with
\* the default K
\* the parts of the state a specification leaves alone
IdleIndex ==
    /\ idxK = defaultK
    /\ idxF = defaultF
    /\ Bucket = EmptyBucket
    /\ present = {}
    /\ lastOp = NoOp

IdleBuild ==
    /\ bSimhash = Nil
    /\ bFeatures = <<>>
    /\ bOut = NoOp
    /\ bFirst = NoOp
    /\ batchSize = 200
    /\ largeWeightCutoff = 50

IdleFp ==
    /\ fpNew = NoOp
    /\ fpPrev = Nil
    /\ fpOp = NoOp

IdleConc ==
    /\ numWorkers = 1
    /\ taskCh = <<>> /\ taskClosed = FALSE
    /\ resultCh = <<>> /\ resultClosed = FALSE
    /\ spawned = 0
    /\ wpc = <<"idle">>
    /\ wtask = <<Nil>>
    /\ ppc = "idle"
    /\ unsent = {}
    /\ cSent = <<>>
    /\ cTotalWeight = 0
    /\ cSums = <<>>
    /\ cOut = NoOp

Init ==
    /\ idxK \in (0..MaxK) \cup {defaultK}
    /\ idxF \in IndexWidths
    /\ Bucket = EmptyBucket
    /\ present = {}
    /\ lastOp = NoOp
    /\ IdleBuild
    /\ IdleFp
    /\ IdleConc

Admitted(obj) == obj.S # Nil /\ obj.S.F = idxF

Pair(obj) == [Value |-> obj.S.Value, ObjectId |-> obj.ObjectId]

DoAdd(obj) ==
    /\ Bucket' = Add(Index, obj)
    /\ present' = IF Admitted(obj) THEN present \cup {Pair(obj)} ELSE present
    /\ lastOp' = [op |-> "Add", obj |-> obj]
    /\ UNCHANGED <<idxK, idxF, buildVars, fpVars, concVars>>

DoDelete(obj) ==
    /\ Bucket' = Delete(Index, obj)
    /\ present' = IF Admitted(obj) THEN present \ {Pair(obj)} ELSE present
    /\ lastOp' = [op |-> "Delete", obj |-> obj,
                  was |-> Admitted(obj) /\ Pair(obj) \in present]
    /\ UNCHANGED <<idxK, idxF, buildVars, fpVars, concVars>>

DoGetNearDups(q) ==
    /\ \E ans \in GetNearDups(Index, q) :
          lastOp' = [op |-> "GetNearDups", query |-> q, result |-> ans]
    /\ UNCHANGED <<idxK, idxF, Bucket, present, buildVars, fpVars, concVars>>

DoBucketSize ==
    /\ lastOp' = [op |-> "BucketSize", result |-> BucketSize(Index)]
    /\ UNCHANGED <<idxK, idxF, Bucket, present, buildVars, fpVars, concVars>>

Next ==
    \/ \E obj \in Objects : DoAdd(obj)
    \/ \E obj \in Objects : DoDelete(obj)
    \/ \E q \in Queries : DoGetNearDups(q)
    \/ DoBucketSize

Spec == Init /\ [][Next]_vars

(***************************************************************************)
(* The builder on its own: a feature mapping built time and again, Go      *)
(* ranging over the map in an order of its choice each time.               *)
(***************************************************************************)
FeaturePool == { <<"a">>, <<"b">>, <<"c">>, <<"d">>, <<"e">> }

Weights(wa, wb, wc, wd, we) ==
    [f \in FeaturePool |->
        CASE f = <<"a">> -> wa [] f = <<"b">> -> wb [] f = <<"c">> -> wc
          [] f = <<"d">> -> wd [] f = <<"e">> -> we]

\* weights on both sides of largeWeightCutoff: unit weights, four features
\* of weight 50 that fill a batch of batchSize with a fifth one that moves
\* the batch boundary, and mixes of batched and large weights
WeightProfiles ==
    { Weights(1, 1, 1, 1, 1),
      Weights(50, 50, 50, 50, 1),
      Weights(50, 50, 50, 50, 51),
      Weights(51, 1, 50, 51, 50),
      Weights(1, 2, 3, 51, 60) }

\* the profiles restricted to every subset of the features
FeatureMaps ==
    { [f \in fs |-> w[f]] : fs \in SUBSET FeaturePool, w \in WeightProfiles }

BuildWidths == {8, 16}

InitBuild ==
    /\ bSimhash \in { [Value |-> 0, F |-> f, FBytes |-> GoDiv(f, 8)] : f \in BuildWidths }
    /\ bFeatures \in FeatureMaps
    /\ bOut = NoOp
    /\ bFirst = NoOp
    /\ batchSize = 200
    /\ largeWeightCutoff = 50
    /\ IdleIndex
    /\ IdleFp
    /\ IdleConc

DoBuild(order) ==
    LET st  == Loop(bSimhash, bFeatures, order, Len(order))
        out == [op |-> "build",
                out |-> buildInOrder(bSimhash, bFeatures, order),
                nsums |-> Len(FinalSums(bSimhash, st))]
    IN  /\ bOut' = out
        /\ bFirst' = IF bFirst = NoOp THEN out ELSE bFirst
        /\ UNCHANGED <<bSimhash, bFeatures, batchSize, largeWeightCutoff, idxVars, fpVars,
                        concVars>>

NextBuild == \E order \in Orderings(DOMAIN bFeatures) : DoBuild(order)

SpecBuild == InitBuild /\ [][NextBuild]_vars

(***************************************************************************)
(* The builder under other settings of the package variables batchSize and *)
(* largeWeightCutoff: small ones, so that a few features of small weight   *)
(* fill batches and the list of partial sums.                              *)
(***************************************************************************)
BatchSizes == {2, 3, 200}

Cutoffs == {0, 1, 2, 50}

TuneFeatures == { <<"a">>, <<"b">>, <<"c">>, <<"d">> }

TuneWeights == { <<1, 1, 1, 1>>, <<2, 1, 3, 1>>, <<3, 3, 2, 4>>, <<1, 51, 2, 60>> }

TuneMaps ==
    { [f \in fs |->
         CASE f = <<"a">> -> w[1] [] f = <<"b">> -> w[2]
           [] f = <<"c">> -> w[3] [] f = <<"d">> -> w[4]] :
      fs \in SUBSET TuneFeatures, w \in TuneWeights }

InitTune ==
    /\ bSimhash \in { [Value |-> 0, F |-> f, FBytes |-> GoDiv(f, 8)] : f \in BuildWidths }
    /\ bFeatures \in TuneMaps
    /\ bOut = NoOp
    /\ bFirst = NoOp
    /\ batchSize \in BatchSizes
    /\ largeWeightCutoff \in Cutoffs
    /\ IdleIndex
    /\ IdleFp
    /\ IdleConc

SpecTune == InitTune /\ [][NextBuild]_vars

(***************************************************************************)
(* buildByFeaturesConcurrent (src/unnamed/part_003): the calling goroutine *)
(* starts numWorkers workers, sends one task per feature on taskCh, closes *)
(* it, receives len(features) results from resultCh, closes it and reduces *)
(* the results; each worker ranges over taskCh and sends one result per    *)
(* task.  A step is one channel operation or one goroutine start.          *)
(***************************************************************************)
MaxWorkers == 2

\* len(features), the capacity of both channels
ChanCap == Cardinality(DOMAIN bFeatures)

Workers == 1..numWorkers

\* the slice expression hashed[len(hashed)-s.FBytes:] panics
SliceOutOfRange(s, t) ==
    LET hashed == HashFunc(Bytes(t.feature))
    IN  Len(hashed) - s.FBytes < 0 \/ Len(hashed) - s.FBytes > Len(hashed)

\* WeightedRow without the weight
WeightedRowUnscaled(s, t) ==
    LET hashed == HashFunc(Bytes(t.feature))
    IN  bitArrayFromBytes(SubSeq(hashed, Len(hashed) - s.FBytes + 1, Len(hashed)))

\* the body of the worker's loop: the bit array of the task's digest, scaled
\* by its weight (the locals hashed and bits computed once)
WeightedRow(s, t) ==
    CHOOSE weighted \in
        { [i \in DOMAIN bits |-> bits[i] * t.weight] :
            bits \in { bitArrayFromBytes(SubSeq(hashed, Len(hashed) - s.FBytes + 1,
                                                Len(hashed))) :
                hashed \in { HashFunc(Bytes(t.feature)) } } } : TRUE

\* the receiving loop ending one result early
CollectedEarly(rows, features) == Len(rows) + 1 >= Cardinality(DOMAIN features)

\* "for range len(features)" has run len(features) times
Collected(rows, features) == Len(rows) >= Cardinality(DOMAIN features)

\* the weighted fields of the results received
Weighted(rows) == [i \in DOMAIN rows |-> rows[i].weighted]

\* the code after close(resultCh): combine, threshold and pack, each of the
\* locals combinedSums and finalBits and the packed bytes computed once
Reduce(s, rows, total) ==
    CHOOSE out \in
        { Return([s EXCEPT !.Value = SetBytes(buf)]) :
            buf \in { packBits(finalBits) :
                finalBits \in { Threshold(combinedSums, total) :
                    combinedSums \in { sumHashesBytes(Weighted(rows)) } } } } : TRUE

\* a panic in any goroutine ends the program
Crash(msg) ==
    /\ ppc' = "crashed"
    /\ cOut' = Panic(msg)
    /\ UNCHANGED <<unsent, cSent, cTotalWeight, cSums, chanVars, workerVars>>

Running == ppc \notin {"idle", "crashed"}

ConcFeatures == { <<"a">>, <<"b">>, <<"c">> }

ConcWeights == { <<1, 1, 1>>, <<2, 1, 3>>, <<51, 1, 60>> }

ConcMaps ==
    { [f \in fs |->
         CASE f = <<"a">> -> w[1] [] f = <<"b">> -> w[2] [] f = <<"c">> -> w[3]] :
      fs \in SUBSET ConcFeatures, w \in ConcWeights }

InitConc ==
    /\ bSimhash \in { [Value |-> 0, F |-> f, FBytes |-> GoDiv(f, 8)] : f \in BuildWidths }
    /\ bFeatures \in ConcMaps
    /\ bOut = NoOp
    /\ bFirst = NoOp
    /\ batchSize = 200
    /\ largeWeightCutoff = 50
    /\ numWorkers \in 1..MaxWorkers
    /\ taskCh = <<>> /\ taskClosed = FALSE
    /\ resultCh = <<>> /\ resultClosed = FALSE
    /\ spawned = 0
    /\ wpc = [w \in Workers |-> "idle"]
    /\ wtask = [w \in Workers |-> Nil]
    /\ ppc = "spawn"
    /\ unsent = DOMAIN bFeatures
    /\ cSent = <<>>
    /\ cTotalWeight = 0
    /\ cSums = <<>>
    /\ cOut = NoOp
    /\ IdleIndex
    /\ IdleFp

ConcFrame == UNCHANGED <<numWorkers, idxVars, buildVars, fpVars>>

\* "for range numWorkers { go func() {...}() }": one goroutine is started
MainSpawn ==
    /\ ppc = "spawn"
    /\ spawned' = spawned + 1
    /\ wpc' = [wpc EXCEPT ![spawned + 1] = "recv"]
    /\ ppc' = IF spawned + 1 = numWorkers THEN "send" ELSE "spawn"
    /\ UNCHANGED <<wtask, unsent, cSent, cTotalWeight, cSums, cOut, chanVars>>
    /\ ConcFrame

\* "taskCh <- task{...}; totalWeight += weight" for the next feature of the
\* map, which Go picks in an order of its choice
MainSend(feature) ==
    /\ ppc = "send"
    /\ feature \in unsent
    /\ Len(taskCh) < ChanCap
    /\ taskCh' = Append(taskCh, [feature |-> feature, weight |-> bFeatures[feature]])
    /\ cTotalWeight' = cTotalWeight + bFeatures[feature]
    /\ unsent' = unsent \ {feature}
    /\ cSent' = Append(cSent, feature)
    /\ UNCHANGED <<ppc, cSums, cOut, taskClosed, resultCh, resultClosed, workerVars>>
    /\ ConcFrame

\* MainCloseTasks without the close: the calling goroutine goes on to receive
MainCloseTasksNoClose ==
    /\ ppc = "send"
    /\ unsent = {}
    /\ ppc' = "collect"
    /\ UNCHANGED <<unsent, cSent, cTotalWeight, cSums, cOut, chanVars, workerVars>>
    /\ ConcFrame

\* close(taskCh), after the loop over the map
MainCloseTasks ==
    /\ ppc = "send"
    /\ unsent = {}
    /\ taskClosed' = TRUE
    /\ ppc' = "collect"
    /\ UNCHANGED <<unsent, cSent, cTotalWeight, cSums, cOut, taskCh, resultCh,
                   resultClosed, workerVars>>
    /\ ConcFrame

\* "r := <-resultCh; sums = append(sums, r.weighted)"
MainCollect ==
    /\ ppc = "collect"
    /\ ~Collected(cSums, bFeatures)
    /\ resultCh # <<>>
    /\ cSums' = Append(cSums, Head(resultCh))
    /\ resultCh' = Tail(resultCh)
    /\ UNCHANGED <<ppc, unsent, cSent, cTotalWeight, cOut, taskCh, taskClosed,
                   resultClosed, workerVars>>
    /\ ConcFrame

\* close(resultCh), after the receiving loop
MainCloseResults ==
    /\ ppc = "collect"
    /\ Collected(cSums, bFeatures)
    /\ resultClosed' = TRUE
    /\ ppc' = "reduce"
    /\ UNCHANGED <<unsent, cSent, cTotalWeight, cSums, cOut, taskCh, taskClosed,
                   resultCh, workerVars>>
    /\ ConcFrame

\* the reduction: from sumHashesBytes(sums) to the return
MainReduce ==
    /\ ppc = "reduce"
    /\ cOut' = Reduce(bSimhash, cSums, cTotalWeight)
    /\ ppc' = "done"
    /\ UNCHANGED <<unsent, cSent, cTotalWeight, cSums, chanVars, workerVars>>
    /\ ConcFrame

\* "for t := range taskCh": the worker receives a task, or leaves the loop
\* when the channel is closed and empty
WorkerRecv(w) ==
    /\ Running
    /\ wpc[w] = "recv"
    /\ IF taskCh # <<>>
       THEN /\ wtask' = [wtask EXCEPT ![w] = Head(taskCh)]
            /\ taskCh' = Tail(taskCh)
            /\ wpc' = [wpc EXCEPT ![w] = "send"]
       ELSE /\ taskClosed
            /\ wpc' = [wpc EXCEPT ![w] = "done"]
            /\ UNCHANGED <<wtask, taskCh>>
    /\ UNCHANGED <<spawned, taskClosed, resultCh, resultClosed, mainVars>>
    /\ ConcFrame

\* the body of the loop: the worker computes the weighted bit array and
\* sends it on resultCh ("of" is history: the feature the result is of)
WorkerSend(w) ==
    /\ Running
    /\ wpc[w] = "send"
    /\ IF SliceOutOfRange(bSimhash, wtask[w])
       THEN Crash("slice bounds out of range")
       ELSE IF resultClosed
       THEN Crash("send on closed channel")
       ELSE /\ Len(resultCh) < ChanCap
            /\ resultCh' = Append(resultCh,
                   [weighted |-> WeightedRow(bSimhash, wtask[w]),
                    of |-> wtask[w].feature])
            /\ wpc' = [wpc EXCEPT ![w] = "recv"]
            /\ wtask' = [wtask EXCEPT ![w] = Nil]
            /\ UNCHANGED <<spawned, taskCh, taskClosed, resultClosed, mainVars>>
    /\ ConcFrame

NextConc ==
    \/ MainSpawn
    \/ \E feature \in DOMAIN bFeatures : MainSend(feature)
    \/ MainCloseTasks
    \/ MainCollect
    \/ MainCloseResults
    \/ MainReduce
    \/ \E w \in Workers : WorkerRecv(w)
    \/ \E w \in Workers : WorkerSend(w)

SpecConc == InitConc /\ [][NextConc]_vars

\* the Go scheduler runs a goroutine that can take a step, as long as there
\* is one
SpecConcFair == SpecConc /\ WF_vars(NextConc)

(***************************************************************************)
(* The fingerprint primitives on their own: fingerprints are constructed   *)
(* by NewSimhash, and the last two are compared by Distance and Equal.     *)
(***************************************************************************)
\* the WithF options of a call, in order
WidthOptions == { <<>>, <<8>>, <<16>>, <<0>>, <<12>>, <<-8>>, <<16, 8>> }

Texts == { <<"a", "b", " ", "A", "!", "b", "c">>, <<"a", "B">> }

Int64Inputs == [kind : {"int64"}, v : {5, -1}]

BigIntInputs == [kind : {"*big.Int"}, v : {70000}]

\* a value of a type NewSimhash has no case for
OtherInputs == {[kind |-> "int", v |-> 5]}

TextInputs == [kind : {"string"}, v : Texts]

MapInputs ==
    {[kind |-> "map[string]int",
      v |-> [f \in {<<"a">>, <<"b">>, <<"c">>} |-> IF f = <<"b">> THEN 1 ELSE 2]]}

ListInputs == {[kind |-> "[]string", v |-> << <<"a">>, <<"b">>, <<"a">> >>]}

\* the outcome is a fingerprint: no panic and not nil
IsFingerprint(out) == ~out.panic /\ out.value # Nil

\* the fingerprint the last NewSimhash call returned, or Nil
Current == IF fpNew # NoOp /\ IsFingerprint(fpNew.out) THEN fpNew.out.value ELSE Nil

\* the fingerprint constructed before, handed to NewSimhash to be copied
CopyInputs == IF Current = Nil THEN {} ELSE {[kind |-> "*Simhash", v |-> Current]}

InitFp ==
    /\ fpNew = NoOp
    /\ fpPrev = Nil
    /\ fpOp = NoOp
    /\ IdleIndex
    /\ IdleBuild
    /\ IdleConc

DoNewSimhash(value, options) ==
    /\ \E out \in NewSimhash(value, options) :
          fpNew' = [op |-> "NewSimhash", kind |-> value.kind, options |-> options,
                    out |-> out]
    /\ fpPrev' = IF Current = Nil THEN fpPrev ELSE Current
    /\ fpOp' = NoOp
    /\ UNCHANGED <<idxVars, buildVars, concVars>>

\* the widths at which the model computes a distance: 2^F is an integer of
\* the model checker up to 30 bits
Computable(a, b) == a.F # b.F \/ a.F \in 1..30

\* s.Distance(other), the receiver being the last fingerprint and the
\* argument the one before (recv = "new"), or the other way round
DoDistance(recv) ==
    /\ Current # Nil /\ fpPrev # Nil
    /\ Computable(Current, fpPrev)
    /\ fpOp' = [op |-> "Distance", recv |-> recv,
                out |-> IF recv = "new" THEN Distance(Current, fpPrev)
                        ELSE Distance(fpPrev, Current)]
    /\ UNCHANGED <<fpNew, fpPrev, idxVars, buildVars, concVars>>

DoEqual ==
    /\ Current # Nil /\ fpPrev # Nil
    /\ fpOp' = [op |-> "Equal", out |-> Equal(Current, fpPrev)]
    /\ UNCHANGED <<fpNew, fpPrev, idxVars, buildVars, concVars>>

NextFp ==
    \/ \E value \in Int64Inputs, options \in WidthOptions : DoNewSimhash(value, options)
    \/ \E value \in BigIntInputs, options \in WidthOptions : DoNewSimhash(value, options)
    \/ \E value \in OtherInputs, options \in WidthOptions : DoNewSimhash(value, options)
    \/ \E value \in TextInputs, options \in WidthOptions : DoNewSimhash(value, options)
    \/ \E value \in MapInputs, options \in WidthOptions : DoNewSimhash(value, options)
    \/ \E value \in ListInputs, options \in WidthOptions : DoNewSimhash(value, options)
    \/ \E value \in CopyInputs, options \in WidthOptions : DoNewSimhash(value, options)
    \/ \E recv \in {"new", "prev"} : DoDistance(recv)
    \/ DoEqual

SpecFp == InitFp /\ [][NextFp]_vars

(***************************************************************************)
(* Properties of the index.                                                *)
(***************************************************************************)
Range(seq) == { seq[i] : i \in DOMAIN seq }

\* the fingerprint of an entry that is in the index
EntryFp(e) == [Value |-> e.Value, F |-> idxF]

Queried == lastOp.op = "GetNearDups" /\ lastOp.query.F = idxF

\* C1: no false negatives.  After GetNearDups(q) with q of the index's width,
\* the result holds the objectId of every entry that is in the index and
\* lies within distance K of q.
NoFalseNegatives ==
    Queried =>
        \A e \in present :
            Distance(lastOp.query, EntryFp(e)).value <= idxK
                => e.ObjectId \in Range(lastOp.result)

\* C1 witness: a query returned an entry at a positive distance <= K, its
\* value neither equal to the query's nor inside the width.
NoFalseNegativesWitness ==
    /\ Queried
    /\ \E e \in present :
          /\ e.Value # lastOp.query.Value
          /\ Distance(lastOp.query, EntryFp(e)).value <= idxK
          /\ e.ObjectId \in Range(lastOp.result)
    /\ \E e \in present :
          /\ Distance(lastOp.query, EntryFp(e)).value \in 1..idxK
          /\ e.ObjectId \in Range(lastOp.result)

\* C2: exact-distance filter.  Every objectId GetNearDups(q) returns belongs
\* to an entry that is in the index and lies within distance K of q.
ExactDistanceFilter ==
    Queried =>
        \A id \in Range(lastOp.result) :
            \E e \in present :
                /\ e.ObjectId = id
                /\ Distance(lastOp.query, EntryFp(e)).value <= idxK

\* C2 witness: the query shares a bucket with an entry at a distance > K,
\* whose objectId is left out, while another entry is returned.
ExactDistanceFilterWitness ==
    /\ Queried
    /\ lastOp.result # <<>>
    /\ \E e \in present :
          /\ Serialize([ObjectId |-> e.ObjectId, S |-> EntryFp(e)])
                \in Candidates(Index, lastOp.query)
          /\ Distance(lastOp.query, EntryFp(e)).value > idxK
          /\ e.ObjectId \notin Range(lastOp.result)

\* C3: Add is idempotent.  In the state after Add(e), a second Add(e) gives
\* the same bucket table, and each bucket of e holds e's serialized form.
AddIdempotent ==
    lastOp.op = "Add" =>
        /\ Add(Index, lastOp.obj) = Bucket
        /\ Admitted(lastOp.obj) =>
              \A i \in 1..(idxK + 1) :
                  LET key == GetKeys(Index, lastOp.obj.S)[i]
                  IN  key \in DOMAIN Bucket /\ Serialize(lastOp.obj) \in Bucket[key]

\* C3 witness: an entry was added to a table that holds other entries too.
AddIdempotentWitness ==
    /\ lastOp.op = "Add"
    /\ Admitted(lastOp.obj)
    /\ Cardinality(present) >= 3

\* the index with the bucket table of the next state
IndexNext == [K |-> idxK, F |-> idxF, Bucket |-> Bucket']

\* C4: Delete is idempotent and safe on absent entries.  A step Delete(e)
\* with e not in the index leaves the bucket table as it was, and after any
\* Delete(e) a second Delete(e) leaves the table as the first left it.
DeleteIdempotent ==
    [][ lastOp'.op = "Delete" =>
          /\ Delete(IndexNext, lastOp'.obj) = Bucket'
          /\ (Admitted(lastOp'.obj) /\ Pair(lastOp'.obj) \notin present)
                => Bucket' = Bucket ]_vars

\* C4 witness: an entry that is not in the index was deleted from a table
\* that shares one of its buckets.
DeleteIdempotentWitness ==
    /\ lastOp.op = "Delete"
    /\ Admitted(lastOp.obj)
    /\ \E i \in 1..(idxK + 1) : GetKeys(Index, lastOp.obj.S)[i] \in DOMAIN Bucket
    /\ present # {}

WidthMismatch(fp) == fp # Nil /\ fp.F # idxF

\* C5: a width mismatch is a silent no-op.  Add and Delete of an entry of
\* another width leave the bucket table unchanged, and GetNearDups of a
\* query of another width returns the empty result and changes nothing.
WidthMismatchNoOp ==
    [][ /\ (lastOp'.op \in {"Add", "Delete"} /\ WidthMismatch(lastOp'.obj.S))
              => Bucket' = Bucket
        /\ (lastOp'.op = "GetNearDups" /\ WidthMismatch(lastOp'.query))
              => (lastOp'.result = <<>> /\ Bucket' = Bucket) ]_vars

\* C5 witness: an entry of another width was added to a non-empty table.
WidthMismatchNoOpWitness ==
    /\ lastOp.op = "Add"
    /\ WidthMismatch(lastOp.obj.S)
    /\ Bucket # EmptyBucket

\* C12: GetNearDups returns each objectId at most once.  After GetNearDups(q)
\* no two positions of the result hold the same objectId.
NearDupsOnce ==
    Queried =>
        \A i, j \in DOMAIN lastOp.result :
            lastOp.result[i] = lastOp.result[j] => i = j

\* the buckets of the query that hold the entry e
BucketsHolding(e) ==
    { i \in 1..(idxK + 1) :
        LET key == GetKeys(Index, lastOp.query)[i]
        IN  /\ key \in DOMAIN Bucket
            /\ Serialize([ObjectId |-> e.ObjectId, S |-> EntryFp(e)]) \in Bucket[key] }

\* C12 witness: the query returned an objectId that two entries within
\* distance K share, one of them found through several of the probed buckets,
\* along with another objectId.
NearDupsOnceWitness ==
    /\ Queried
    /\ Len(lastOp.result) >= 2
    /\ \E e1, e2 \in present :
          /\ e1.Value # e2.Value
          /\ e1.ObjectId = e2.ObjectId
          /\ Distance(lastOp.query, EntryFp(e1)).value <= idxK
          /\ Distance(lastOp.query, EntryFp(e2)).value <= idxK
          /\ Cardinality(BucketsHolding(e1)) >= 2
          /\ BucketsHolding(e2) # {}
          /\ e1.ObjectId \in Range(lastOp.result)

\* the serialized form of an entry that is in the index
EntrySer(e) == Serialize([ObjectId |-> e.ObjectId, S |-> EntryFp(e)])

\* the bucket keys under which a serialized form is stored
KeysHolding(val) == { key \in DOMAIN Bucket : val \in Bucket[key] }

\* the partition index a bucket key ends with (the text after its colon), or
\* -1 for a key that names none
PartitionOf(key) ==
    LET colons == { i \in DOMAIN key : key[i] = ":" }
    IN  IF colons = {} THEN -1
        ELSE LET colon == CHOOSE i \in colons : \A j \in colons : j <= i
             IN  SetString16(SubSeq(key, colon + 1, Len(key)))

\* C14: every entry lies in exactly K+1 buckets.  In every state reached by
\* Add and Delete, the serialized form of each entry in the index is stored
\* under exactly K+1 bucket keys, one for each partition index 0..K, and
\* after Delete(e) the serialized form of e is stored under no key.
EntryInEveryPartition ==
    /\ \A e \in present :
          /\ Cardinality(KeysHolding(EntrySer(e))) = idxK + 1
          /\ \A j \in 0..idxK :
                Cardinality({ key \in KeysHolding(EntrySer(e)) : PartitionOf(key) = j }) = 1
    /\ (lastOp.op = "Delete" /\ Admitted(lastOp.obj))
          => KeysHolding(Serialize(lastOp.obj)) = {}

\* C14 witness: an entry was deleted whose buckets it shared with an entry
\* that stays, in an index of more than one partition.
EntryInEveryPartitionWitness ==
    /\ lastOp.op = "Delete"
    /\ Admitted(lastOp.obj)
    /\ idxK >= 1
    /\ Cardinality(present) >= 2
    /\ \E e \in present : \E i \in 1..(idxK + 1) :
          GetKeys(Index, lastOp.obj.S)[i] \in KeysHolding(EntrySer(e))

\* the bucket keys of the entries that are in the index
LiveKeys == UNION { Range(GetKeys(Index, EntryFp(e))) : e \in present }

\* C19: the table holds no empty bucket.  In every state reached by Add and
\* Delete every bucket of the table holds an entry, and BucketSize returns
\* the number of distinct bucket keys of the entries in the index, which is
\* 0 when no entry is in it.
NoEmptyBucket ==
    /\ \A key \in DOMAIN Bucket : Bucket[key] # {}
    /\ BucketSize(Index) = Cardinality(LiveKeys)
    /\ lastOp.op = "BucketSize" =>
          /\ lastOp.result = Cardinality(LiveKeys)
          /\ present = {} => lastOp.result = 0

\* the keys of the entry of the last Add or Delete
LastKeys == Range(GetKeys(Index, lastOp.obj.S))

\* C19 witness: an entry that was in the index was deleted; a bucket it
\* had to itself is gone, a bucket it shared with another entry remains.
NoEmptyBucketWitness ==
    /\ lastOp.op = "Delete"
    /\ lastOp.was
    /\ \E key \in LastKeys : key \notin DOMAIN Bucket
    /\ \E key \in LastKeys : key \in DOMAIN Bucket

\* the table that holds each entry of a set of entries under each of its keys
TableOf(entries) ==
    [key \in UNION { Range(GetKeys(Index, EntryFp(e))) : e \in entries } |->
        { EntrySer(e) : e \in { x \in entries : key \in Range(GetKeys(Index, EntryFp(x))) } }]

\* C20: the bucket table does not depend on the order of the operations.
\* In every state reached by Add and Delete the table is the one determined
\* by the set of (value, objectId) pairs in the index alone, and entries of
\* one value and different objectIds are stored as separate entries.
TableIsOrderIndependent ==
    /\ Bucket = TableOf(present)
    /\ \A e1, e2 \in present :
          (e1.Value = e2.Value /\ e1.ObjectId # e2.ObjectId)
              => /\ EntrySer(e1) # EntrySer(e2)
                 /\ \A key \in Range(GetKeys(Index, EntryFp(e1))) :
                       {EntrySer(e1), EntrySer(e2)} \subseteq Bucket[key]

\* C20 witness: after a Delete of an entry that was in the index, the index
\* holds two entries of one value and different objectIds and an entry of
\* another value.
TableIsOrderIndependentWitness ==
    /\ lastOp.op = "Delete"
    /\ lastOp.was
    /\ \E e1, e2, e3 \in present :
          /\ e1.Value = e2.Value /\ e1.ObjectId # e2.ObjectId
          /\ e3.Value # e1.Value

EqualRespectsWidth ==
    (fpOp.op = "Equal" /\ Current.F # fpPrev.F /\ Current.F > 0 /\ fpPrev.F > 0)
        => fpOp.out = FALSE

\* the number of bits of a natural number
RECURSIVE BitLen(_)
BitLen(v) == IF v <= 0 THEN 0 ELSE 1 + BitLen(v \div 2)

Constructed == fpNew # NoOp /\ IsFingerprint(fpNew.out)

\* C8: the value lies within the width.  Every fingerprint NewSimhash
\* returns has 0 <= Value < 2^F (Value has at most F bits); stated for the
\* fingerprints of a positive width, those the range is defined for.
ValueWithinWidth ==
    (Constructed /\ fpNew.out.value.F > 0) =>
        /\ fpNew.out.value.Value >= 0
        /\ BitLen(fpNew.out.value.Value) <= fpNew.out.value.F

\* the width a call asks for: that of its last WithF option, or the default
RequestedF ==
    IF Len(fpNew.options) = 0 THEN defaultF ELSE fpNew.options[Len(fpNew.options)]

\* the width the call is to end with
ExpectedF ==
    IF RequestedF > 0 /\ RequestedF % 8 = 0 THEN RequestedF ELSE defaultF

DigestLen == Len(HashFunc(<<>>))

\* C9: the width is normalised.  Whatever width is requested, NewSimhash of
\* a value of a type it handles returns a fingerprint whose F is the
\* requested width if that is a positive multiple of 8 and the default 64
\* otherwise, with FBytes = F/8; it panics only when the digest is shorter
\* than that width.
WidthNormalised ==
    (fpNew # NoOp /\ fpNew.kind # "int") =>
        /\ IsFingerprint(fpNew.out) =>
              /\ fpNew.out.value.F = ExpectedF
              /\ fpNew.out.value.F > 0
              /\ fpNew.out.value.F % 8 = 0
              /\ fpNew.out.value.FBytes * 8 = fpNew.out.value.F
        /\ fpNew.out.panic => ExpectedF \div 8 > DigestLen

\* C11: a copy is at distance 0 from its source.  After s.Distance(c), c
\* being NewSimhash(s) of a fingerprint s of any (positive) width, the call
\* returned 0.
CopyAtDistanceZero ==
    ( /\ fpOp.op = "Distance" /\ fpOp.recv = "prev"
      /\ fpNew.kind = "*Simhash" /\ fpNew.options = <<>>
      /\ fpPrev.F > 0 )
        => fpOp.out = Return(0)

\* bit i of the integer v, in two's complement
BitOf(v, i) == (v \div Pow2(i)) % 2

\* the number of positions among the low f bits in which a and b differ
DiffBits(a, b, f) == Cardinality({ i \in 0..(f - 1) : BitOf(a, i) # BitOf(b, i) })

\* the receiver and the argument of the last Distance call
DistanceRecv == IF fpOp.recv = "new" THEN Current ELSE fpPrev

DistanceArg == IF fpOp.recv = "new" THEN fpPrev ELSE Current

\* C13: Distance is the Hamming distance of the low F bits.  After
\* a.Distance(b) on two fingerprints of one width F, the count returned is the
\* number of positions below F in which the values differ; b.Distance(a)
\* returns the same count and a.Distance(a) returns 0.
DistanceIsPopCount ==
    (fpOp.op = "Distance" /\ Current.F = fpPrev.F) =>
        /\ fpOp.out = Return(DiffBits(DistanceRecv.Value, DistanceArg.Value, Current.F))
        /\ Distance(DistanceArg, DistanceRecv) = fpOp.out
        /\ Distance(DistanceRecv, DistanceRecv) = Return(0)

\* C13 witness: Distance was called on two fingerprints of one width and of
\* different values within that width, and returned a count of 2 or more.
DistanceIsPopCountWitness ==
    /\ fpOp.op = "Distance"
    /\ Current.F = fpPrev.F
    /\ Current.Value # fpPrev.Value
    /\ Current.Value \in 0..(Pow2(Current.F) - 1)
    /\ fpPrev.Value \in 0..(Pow2(Current.F) - 1)
    /\ ~fpOp.out.panic
    /\ fpOp.out.value >= 2

(***************************************************************************)
(* Properties of the builder (under SpecBuild).                            *)
(***************************************************************************)
\* C10: building is order-insensitive.  Every build of a feature mapping,
\* in whatever order Go ranges over it, has the outcome of the first build.
BuildOrderInsensitive ==
    bOut # NoOp => bOut.out = bFirst.out

\* C10 witness: two builds of one mapping in orders that put the batch
\* boundaries elsewhere (they end with different numbers of partial sums).
BuildOrderInsensitiveWitness ==
    /\ bOut # NoOp
    /\ ~bOut.out.panic
    /\ bOut.nsums # bFirst.nsums
    /\ bOut.out.value.Value # 0

\* the sum of the weights of the features in S
RECURSIVE WeightOf(_, _)
WeightOf(features, S) ==
    IF S = {} THEN 0
    ELSE LET f == CHOOSE g \in S : TRUE
         IN  features[f] + WeightOf(features, S \ {f})

\* the digest of a feature as an integer, and the features whose digest has
\* bit p set (bit 0 being the last bit of the digest)
DigestValue(feature) == SetBytes(HashFunc(Bytes(feature)))

FeaturesWithBit(p) == { f \in DOMAIN bFeatures : BitOf(DigestValue(f), p) = 1 }

\* combined[p] and totalWeight of the mapping being built
Combined(p) == WeightOf(bFeatures, FeaturesWithBit(p))

TotalWeight == WeightOf(bFeatures, DOMAIN bFeatures)

Built == bOut # NoOp /\ ~bOut.out.panic

\* C15: the majority threshold.  After a build, bit p of the fingerprint is 1
\* exactly when the weights of the features whose digest has bit p set sum to
\* more than totalWeight / 2 (integer division); a tie leaves the bit 0.
MajorityThreshold ==
    Built =>
        \A p \in 0..(bSimhash.F - 1) :
            BitOf(bOut.out.value.Value, p) = 1 <=> Combined(p) > TotalWeight \div 2

\* C15 witness: a build in which one bit is exactly tied on an even total
\* weight and is 0, another bit is set, and a third falls short of a tie.
MajorityThresholdWitness ==
    /\ Built
    /\ TotalWeight % 2 = 0
    /\ \E p \in 0..(bSimhash.F - 1) :
          /\ 2 * Combined(p) = TotalWeight
          /\ BitOf(bOut.out.value.Value, p) = 0
    /\ \E p \in 0..(bSimhash.F - 1) : BitOf(bOut.out.value.Value, p) = 1
    /\ \E p \in 0..(bSimhash.F - 1) : Combined(p) > 0 /\ 2 * Combined(p) < TotalWeight

\* the loop with every feature taking the batched branch, as weight copies
\* of unit weight
RECURSIVE LoopBatched(_, _, _, _)
LoopBatched(s, features, order, n) ==
    IF n = 0 THEN LoopStart
    ELSE LET st == LoopBatched(s, features, order, n - 1)
             h  == HashFunc(Bytes(order[n]))
             hF == SubSeq(h, Len(h) - s.FBytes + 1, Len(h))
         IN  InBatch(s, st, st.batch \o Copies(hF, features[order[n]]),
                     features[order[n]])

\* the unit-weight copies of every feature in one batch, summed at once
RECURSIVE AllCopies(_, _, _, _)
AllCopies(s, features, order, n) ==
    IF n = 0 THEN <<>>
    ELSE LET h == HashFunc(Bytes(order[n]))
         IN  AllCopies(s, features, order, n - 1)
                \o Copies(SubSeq(h, Len(h) - s.FBytes + 1, Len(h)), features[order[n]])

SomeOrder == SeqOf(DOMAIN bFeatures)

\* C16: the large-weight path is equivalent to the batched path.  After a
\* build under any cutoff and batch size, the fingerprint is the one built
\* with every feature expanded into unit-weight copies through the batched
\* branch, and the one built from all the copies in a single batch: it
\* depends neither on the cutoff nor on the batch size.
LargeWeightEquivalence ==
    Built =>
        /\ bOut.out =
              Finish(bSimhash, LoopBatched(bSimhash, bFeatures, SomeOrder, Len(SomeOrder)))
        /\ bOut.out =
              Finish(bSimhash,
                     [LoopStart EXCEPT
                        !.batch = AllCopies(bSimhash, bFeatures, SomeOrder, Len(SomeOrder)),
                        !.count = TotalWeight])

\* C16 witness: a build in which a feature above the cutoff took the scaled
\* branch, features below it filled a batch, and the fingerprint is not 0.
LargeWeightEquivalenceWitness ==
    /\ Built
    /\ \E f \in DOMAIN bFeatures : bFeatures[f] > largeWeightCutoff /\ bFeatures[f] > 1
    /\ WeightOf(bFeatures, { f \in DOMAIN bFeatures : bFeatures[f] <= largeWeightCutoff })
          >= batchSize
    /\ bOut.nsums >= 2
    /\ bOut.out.value.Value # 0

(***************************************************************************)
(* Properties of the concurrent builder (under SpecConc).                  *)
(***************************************************************************)
\* C17: the concurrent builder is deterministic.  Whatever the interleaving
\* of the workers and the order in which the results arrive, once
\* buildByFeaturesConcurrent has returned, its fingerprint is the one
\* buildByFeatures returns for the mapping, in any iteration order.
ConcurrentDeterministic ==
    ppc = "done" =>
        \A out \in buildByFeatures(bSimhash, bFeatures) : cOut = out

\* the features of the results received, in the order of their arrival
ArrivalOrder == [i \in DOMAIN cSums |-> cSums[i].of]

\* C17 witness: the builder returned a fingerprint other than 0 after two
\* workers delivered the results in another order than the tasks were sent.
ConcurrentDeterministicWitness ==
    /\ ppc = "done"
    /\ numWorkers >= 2
    /\ Len(cSums) >= 2
    /\ ArrivalOrder # cSent
    /\ cOut.value.Value # 0

\* C18: the reduction starts only after the workers are through.  When the
\* calling goroutine is about to reduce, every feature has been sent, no
\* task or result is left in a channel, no worker holds a task, and the
\* results received are exactly one weighted vector per feature.
ReduceAfterWorkers ==
    ppc = "reduce" =>
        /\ unsent = {}
        /\ taskCh = <<>> /\ resultCh = <<>>
        /\ \A w \in Workers : wpc[w] # "send" /\ wtask[w] = Nil
        /\ Len(cSums) = Cardinality(DOMAIN bFeatures)
        /\ \A f \in DOMAIN bFeatures :
              /\ Cardinality({ i \in DOMAIN cSums : cSums[i].of = f }) = 1
              /\ \A i \in DOMAIN cSums :
                    cSums[i].of = f =>
                        cSums[i].weighted =
                            WeightedRow(bSimhash, [feature |-> f, weight |-> bFeatures[f]])

\* C18 witness: the reduction is about to start on the results of two
\* workers, one of which has not yet left its loop.
ReduceAfterWorkersWitness ==
    /\ ppc = "reduce"
    /\ numWorkers >= 2
    /\ Len(cSums) >= 2
    /\ \E w \in Workers : wpc[w] = "recv"
    /\ \E w \in Workers : wpc[w] = "done"

\* no goroutine is blocked on a send, and no send meets a closed channel
NoChannelMisuse ==
    /\ ppc # "crashed"
    /\ (ppc = "send" /\ unsent # {}) => (Len(taskCh) < ChanCap /\ ~taskClosed)
    /\ \A w \in Workers :
          wpc[w] = "send" => (Len(resultCh) < ChanCap /\ ~resultClosed)

\* the call has returned and every worker has left its loop
AllExited == ppc = "done" /\ \A w \in Workers : wpc[w] = "done"

\* C21: the concurrent builder terminates without deadlock or channel
\* misuse.  Under fair scheduling, for 0 or more features and 1 or more
\* workers: a send of a task never finds taskCh full, a send of a result
\* never finds resultCh full or closed, and eventually the call has
\* returned and every worker has exited.
ConcurrentTerminates == []NoChannelMisuse /\ <>AllExited

\* C21 witness: the call has returned and both of two workers have exited,
\* each channel having carried two tasks or more.
ConcurrentTerminatesWitness ==
    /\ AllExited
    /\ numWorkers >= 2
    /\ Len(cSums) >= 2
    /\ cOut.value.Value # 0

====
